---- MODULE Spec2Model ----
(***************************************************************************)
(* A state-machine model of the two modules of the repository:             *)
(*                                                                         *)
(*   experiments/timit/data/load_dataset_joint_ctc_attention.py            *)
(*       Dataset.__init__: argument validation, path sorting, eager load   *)
(*       of all arrays, frame stacking.                                    *)
(*   models/attention/attention_seq2seq_base.py                            *)
(*       AttentionBase: _beam_search_decoder_wrapper, compute_loss,        *)
(*       set_optimizer, train, _clip_gradients.                            *)
(*                                                                         *)
(* Python strings that the code inspects (utterance names, optimizer       *)
(* names, variable names) are sequences of one-character strings or of     *)
(* code points, so that comparison, lower() and "in" are computed.         *)
(* Python's None is the string "None"; Python list indices are 0-based,    *)
(* the sequences here are 1-based.                                         *)
(***************************************************************************)
EXTENDS Integers, Sequences, FiniteSets, TLC

VARIABLES
    \* ---- Dataset (load_dataset_joint_ctc_attention.py) ----
    args,            \* the arguments of the Dataset(...) call
    pickled,         \* frame_num.pickle: the dict's items, in iteration order
    pc,              \* position of the constructor
    exc,             \* the exception the constructor raised, or "None"
    self,            \* the instance's attributes: attribute name -> value
    opened,          \* number of open() calls made so far
    np_loads,        \* the paths np.load was called with, in call order
    input_list,      \* local list input_list of the load loop
    att_label_list,  \* local list att_label_list of the load loop
    ctc_label_list,  \* local list ctc_label_list of the load loop
    \* ---- AttentionBase (attention_seq2seq_base.py) ----
    model,           \* the model's attributes: attribute name -> value
    graph,           \* the default graph: collections and variables
    call,            \* the last method call and its arguments
    ret,             \* what that call returned
    raised,          \* the exception that call raised, or "None"
    last_wrap        \* beam_width of the last two wrapper calls, latest first

dsVars == <<args, pickled, pc, exc, self, opened, np_loads,
            input_list, att_label_list, ctc_label_list>>
attVars == <<model, graph, call, ret, raised, last_wrap>>
vars == <<dsVars, attVars>>

\* ------------------------------------------------------------------------
\* Bounds of the model
\* ------------------------------------------------------------------------
MaxUtt == 3      \* at most this many utterances in frame_num.pickle
MaxFrames == 2   \* an utterance has 1..MaxFrames frames
MaxLossCalls == 2   \* compute_loss is called at most this often
MaxTrainCalls == 1  \* train is called at most this often
MaxFullCase == 4    \* names up to this length are tried in every letter case

\* ------------------------------------------------------------------------
\* Python helpers
\* ------------------------------------------------------------------------
None == "None"

\* An object with no attribute set.
NoAttributes == [a \in {} |-> None]

\* self.<attr> = value
SetAttr(obj, attr, value) ==
    [a \in DOMAIN obj \cup {attr} |-> IF a = attr THEN value ELSE obj[a]]

\* Python's str < str: lexicographic on code points, a proper prefix first.
RECURSIVE StrLess(_, _)
StrLess(a, b) ==
    IF b = <<>> THEN FALSE
    ELSE IF a = <<>> THEN TRUE
    ELSE IF a[1] # b[1] THEN a[1] < b[1]
    ELSE StrLess(Tail(a), Tail(b))

\* x in lst, for a Python list lst
InList(x, lst) == \E i \in 1..Len(lst) : lst[i] = x

\* ------------------------------------------------------------------------
\* The file system the constructor reads
\* ------------------------------------------------------------------------
\* Utterance names, as code points: "a", "ab", "b", "ba".
UttNames == {<<97>>, <<97, 98>>, <<98>>, <<98, 97>>}

\* '.npy'
NpyExt == <<46, 110, 112, 121>>

\* The contents frame_num.pickle can have: a dict utterance name -> number of
\* frames, given as its items in the dict's iteration order (keys distinct).
PickleContents ==
    UNION {
        {s \in [1..n -> UttNames \X (1..MaxFrames)] :
            \A i, j \in 1..n : i # j => s[i][1] # s[j][1]}
        : n \in 0..MaxUtt }

\* os.path.join(dir, file): file names here hold no path separator.
join(dir, file) == [dir |-> dir, file |-> file]

InputDir(data_type) == <<"inputs", "htk", "speaker", data_type>>
CtcLabelDir(label_type, data_type) == <<"labels", "ctc", label_type, data_type>>
AttLabelDir(label_type, data_type) ==
    <<"labels", "attention", label_type, data_type>>

\* The utterance name of a path <dir>/<name>.npy
UttOf(path) == SubSeq(path.file, 1, Len(path.file) - Len(NpyExt))

\* The number of frames the pickle records for an utterance name.
FrameNum(items, name) ==
    LET i == CHOOSE i \in 1..Len(items) : items[i][1] = name IN items[i][2]

\* np.load(path): the array stored in the file.  The contents of different
\* files differ (stored_in); an input file holds one feature vector per
\* frame, as many as the pickle records for the utterance.
np_load(path) ==
    [stored_in |-> path,
     frames |-> IF path.dir[1] = "inputs"
                THEN [t \in 1..FrameNum(pickled, UttOf(path)) |->
                         UttOf(path) \o <<t>>]
                ELSE <<>>]

\* ------------------------------------------------------------------------
\* Dataset.__init__
\* ------------------------------------------------------------------------
DATA_TYPES == <<"train", "dev", "test">>
LABEL_TYPES == <<"phone39", "phone48", "phone61", "character",
                 "character_capital_divide">>

\* The two membership tests that open the constructor.
ValidArgsOnlyDataType(data_type, label_type) == InList(data_type, DATA_TYPES)
ValidArgs(data_type, label_type) ==
    InList(data_type, DATA_TYPES) /\ InList(label_type, LABEL_TYPES)

\* axis = 1 if sort_utt else 0   (x[0] is the name, x[1] the frame number)
SortAxisSwapped(sort_utt) == IF sort_utt THEN 0 ELSE 1
SortAxis(sort_utt) == IF sort_utt THEN 1 ELSE 0

\* key(x) < key(y) for key = lambda x: x[axis]
KeyLess(axis, x, y) ==
    IF axis = 1 THEN x[2] < y[2] ELSE StrLess(x[1], y[1])

\* sorted(items, key=...): Python's sort is stable, so an item goes after
\* every item already placed whose key is not greater than its own.
RECURSIVE InsertSorted(_, _, _)
InsertSorted(s, x, axis) ==
    IF s = <<>> THEN <<x>>
    ELSE IF KeyLess(axis, x, s[1]) THEN <<x>> \o s
    ELSE <<s[1]>> \o InsertSorted(Tail(s), x, axis)

RECURSIVE sorted(_, _)
sorted(items, axis) ==
    IF items = <<>> THEN <<>>
    ELSE InsertSorted(sorted(SubSeq(items, 1, Len(items) - 1), axis),
                      items[Len(items)], axis)

\* stack_frame for one utterance: every num_skip-th frame, concatenated with
\* the num_stack - 1 frames that follow it (as many as there are).
RECURSIVE Concat(_)
Concat(ss) == IF ss = <<>> THEN <<>> ELSE ss[1] \o Concat(Tail(ss))

StackUtt(frames, num_stack, num_skip) ==
    LET T == Len(frames)
        n == (T + num_skip - 1) \div num_skip
        lo(k) == (k - 1) * num_skip + 1
        hi(k) == IF lo(k) + num_stack - 1 < T THEN lo(k) + num_stack - 1 ELSE T
    IN [k \in 1..n |-> Concat(SubSeq(frames, lo(k), hi(k)))]

\* stack_frame(inputs, input_paths, frame_num_dict, num_stack, num_skip, ..)
stack_frame(inputs, input_paths, frame_num_dict, num_stack, num_skip) ==
    [i \in 1..Len(inputs) |->
        [stored_in |-> inputs[i].stored_in,
         frames |-> StackUtt(inputs[i].frames, num_stack, num_skip)]]

\* The calls Dataset(data_type, label_type, batch_size, eos_index, ...,
\* num_stack, num_skip, ..., sort_utt, ...) the model makes.
DataTypeInputs == {"train", "dev", "test", "eval"}
LabelTypeInputs == {"phone39", "phone48", "phone61", "character",
                    "character_capital_divide", "phone"}
StackInputs == {<<1, 1>>, <<2, 2>>, <<2, 1>>}

DatasetCall(d, l, st, su) ==
    [data_type |-> d, label_type |-> l, batch_size |-> 2, eos_index |-> 1,
     max_epoch |-> None, splice |-> 1, num_stack |-> st[1],
     num_skip |-> st[2], shuffle |-> FALSE, sort_utt |-> su,
     sort_stop_epoch |-> None, progressbar |-> FALSE]

\* Every data_type and every label_type with the default options, a call
\* with both invalid, and every option with one valid pair.
DatasetCalls ==
    {DatasetCall(d, "phone39", <<1, 1>>, FALSE) : d \in DataTypeInputs}
    \cup {DatasetCall("train", l, <<1, 1>>, FALSE) : l \in LabelTypeInputs}
    \cup {DatasetCall("eval", "phone", <<1, 1>>, FALSE)}
    \cup {DatasetCall("dev", "character", st, su) :
            st \in StackInputs, su \in BOOLEAN}

DatasetInit ==
    /\ args \in DatasetCalls
    /\ pickled \in PickleContents
    /\ pc = "check_args"
    /\ exc = None
    /\ self = NoAttributes
    /\ opened = 0
    /\ np_loads = <<>>
    /\ input_list = <<>>
    /\ att_label_list = <<>>
    /\ ctc_label_list = <<>>
    \* no model is in use
    /\ model = [num_classes |-> 4, sos_index |-> 2, eos_index |-> 3,
                clip_grad |-> <<>>, weight_decay |-> 0,
                summaries_train |-> <<>>, summaries_dev |-> <<>>]
    /\ graph = [losses |-> <<>>, trainable_variables |-> <<>>,
                global_steps |-> 0, loss_calls |-> 0]
    /\ call = [op |-> "None"]
    /\ ret = [cls |-> "NoneType"]
    /\ raised = None
    /\ last_wrap = <<>>

\* lines 49-57: both membership tests, before anything else happens
CheckArgs ==
    /\ pc = "check_args"
    /\ IF ValidArgs(args.data_type, args.label_type)
       THEN pc' = "set_attributes" /\ exc' = exc
       ELSE pc' = "raised" /\ exc' = "TypeError"
    /\ UNCHANGED <<attVars, args, pickled, self, opened, np_loads,
                   input_list, att_label_list, ctc_label_list>>

\* lines 59-72
ArgAttributes ==
    {"data_type", "label_type", "batch_size", "eos_index", "max_epoch",
     "splice", "num_stack", "num_skip", "shuffle", "sort_utt",
     "sort_stop_epoch", "progressbar"}

SetAttributes ==
    /\ pc = "set_attributes"
    /\ self' = [a \in ArgAttributes \cup {"ctc_padded_value", "att_padded_value"}
                 |-> IF a = "ctc_padded_value" THEN -1
                     ELSE IF a = "att_padded_value" THEN args.eos_index
                     ELSE args[a]]
    /\ pc' = "load_frame_num"
    /\ UNCHANGED <<attVars, args, pickled, exc, opened, np_loads,
                   input_list, att_label_list, ctc_label_list>>

\* lines 85-86: open(join(input_path, 'frame_num.pickle')), pickle.load
LoadFrameNum ==
    /\ pc = "load_frame_num"
    /\ opened' = opened + 1
    /\ self' = SetAttr(self, "frame_num_dict", pickled)
    /\ pc' = "sort_paths"
    /\ UNCHANGED <<attVars, args, pickled, exc, np_loads,
                   input_list, att_label_list, ctc_label_list>>

\* lines 89-99
PathsOf(dir, items) ==
    [i \in 1..Len(items) |-> join(dir, items[i][1] \o NpyExt)]

SortPaths ==
    /\ pc = "sort_paths"
    /\ LET frame_num_tuple_sorted ==
               sorted(self.frame_num_dict, SortAxis(args.sort_utt))
       IN self' =
            SetAttr(
              SetAttr(
                SetAttr(self, "input_paths",
                        PathsOf(InputDir(args.data_type),
                                frame_num_tuple_sorted)),
                "att_label_paths",
                PathsOf(AttLabelDir(args.label_type, args.data_type),
                        frame_num_tuple_sorted)),
              "ctc_label_paths",
              PathsOf(CtcLabelDir(args.label_type, args.data_type),
                      frame_num_tuple_sorted))
    /\ pc' = "load_all"
    /\ UNCHANGED <<attVars, args, pickled, exc, opened, np_loads,
                   input_list, att_label_list, ctc_label_list>>

\* lines 104-107: one turn of the loop, i = len(input_list)
LoadedPathsSwapped(i) ==
    <<self.input_paths[i], self.ctc_label_paths[i], self.att_label_paths[i]>>
LoadedPaths(i) ==
    <<self.input_paths[i], self.att_label_paths[i], self.ctc_label_paths[i]>>

LoadUtterance ==
    /\ pc = "load_all"
    /\ Len(input_list) < Len(self.input_paths)
    /\ LET i == Len(input_list) + 1
           p == LoadedPaths(i)
       IN /\ input_list' = Append(input_list, np_load(p[1]))
          /\ att_label_list' = Append(att_label_list, np_load(p[2]))
          /\ ctc_label_list' = Append(ctc_label_list, np_load(p[3]))
          /\ np_loads' = np_loads \o p
    /\ UNCHANGED <<attVars, args, pickled, pc, exc, self, opened>>

\* lines 108-110: the loop is over, the lists become attributes
StoreLists ==
    /\ pc = "load_all"
    /\ Len(input_list) = Len(self.input_paths)
    /\ self' = SetAttr(SetAttr(SetAttr(self, "input_list", input_list),
                               "att_label_list", att_label_list),
                       "ctc_label_list", ctc_label_list)
    /\ pc' = "stack_frames"
    /\ UNCHANGED <<attVars, args, pickled, exc, opened, np_loads,
                   input_list, att_label_list, ctc_label_list>>

\* lines 114-121: frame stacking, then self.rest
StackFrames ==
    /\ pc = "stack_frames"
    /\ self' = SetAttr(
                 SetAttr(self, "input_list",
                         stack_frame(self.input_list, self.input_paths,
                                     self.frame_num_dict,
                                     args.num_stack, args.num_skip)),
                 "rest", 0..(Len(self.input_paths) - 1))
    /\ pc' = "done"
    /\ UNCHANGED <<attVars, args, pickled, exc, opened, np_loads,
                   input_list, att_label_list, ctc_label_list>>

DatasetNext ==
    \/ CheckArgs
    \/ SetAttributes
    \/ LoadFrameNum
    \/ SortPaths
    \/ LoadUtterance
    \/ StoreLists
    \/ StackFrames

\* ------------------------------------------------------------------------
\* AttentionBase
\* ------------------------------------------------------------------------
\* None, where the other values are objects (records)
NoneObj == [cls |-> "NoneType"]

\* An int-or-None value: <<>> is None, <<n>> is the int n.
NoneInt == <<>>
SomeInt(n) == <<n>>

UpperLetters == <<"A", "B", "C", "D", "E", "F", "G", "H", "I", "J", "K", "L",
                  "M", "N", "O", "P", "Q", "R", "S", "T", "U", "V", "W", "X",
                  "Y", "Z">>
LowerLetters == <<"a", "b", "c", "d", "e", "f", "g", "h", "i", "j", "k", "l",
                  "m", "n", "o", "p", "q", "r", "s", "t", "u", "v", "w", "x",
                  "y", "z">>

\* str.lower(), character by character
LowerChar(c) ==
    IF \E i \in 1..Len(UpperLetters) : UpperLetters[i] = c
    THEN LowerLetters[CHOOSE i \in 1..Len(UpperLetters) : UpperLetters[i] = c]
    ELSE c

lowerIdentity(s) == s
lower(s) == [i \in 1..Len(s) |-> LowerChar(s[i])]

\* sub in s, for Python strings
StrContains(sub, s) ==
    \E i \in 1..(Len(s) - Len(sub) + 1) :
        SubSeq(s, i, i + Len(sub) - 1) = sub

\* OPTIMIZER_CLS_NAMES, as the dict's items
OPTIMIZER_CLS_NAMES ==
    << <<<<"a", "d", "a", "g", "r", "a", "d">>, "tf.train.AdagradOptimizer">>,
       <<<<"a", "d", "a", "d", "e", "l", "t", "a">>,
         "tf.train.AdadeltaOptimizer">>,
       <<<<"a", "d", "a", "m">>, "tf.train.AdamOptimizer">>,
       <<<<"m", "o", "m", "e", "n", "t", "u", "m">>,
         "tf.train.MomentumOptimizer">>,
       <<<<"r", "m", "s", "p", "r", "o", "p">>, "tf.train.RMSPropOptimizer">>,
       <<<<"s", "g", "d">>, "tf.train.GradientDescentOptimizer">> >>

\* key in d and d[key], for a dict given as its items
InDict(key, d) == \E i \in 1..Len(d) : d[i][1] = key
DictGet(d, key) == d[CHOOSE i \in 1..Len(d) : d[i][1] = key][2]

\* set_optimizer(optimizer_name, learning_rate): what it raises ...
set_optimizer_raises(optimizer_name) ==
    ~InDict(lower(optimizer_name), OPTIMIZER_CLS_NAMES)

\* ... and the optimizer it returns otherwise
set_optimizer(optimizer_name, learning_rate) ==
    LET name == lower(optimizer_name) IN
    IF name = <<"m", "o", "m", "e", "n", "t", "u", "m">>
    THEN [cls |-> DictGet(OPTIMIZER_CLS_NAMES, name),
          learning_rate |-> learning_rate, momentum |-> "0.9"]
    ELSE [cls |-> DictGet(OPTIMIZER_CLS_NAMES, name),
          learning_rate |-> learning_rate, momentum |-> None]

\* _clip_gradients(grads_and_vars, _clip_norm): a gradient is a record, or
\* None; the pairs whose gradient is None are left out.
ClipOneByValue(gv, clip_grad, clip_norm) ==
    <<[op |-> "tf.clip_by_value", t |-> gv[1],
       bounds |-> <<-clip_grad, clip_grad>>], gv[2]>>
ClipOne(gv, clip_grad, clip_norm) ==
    IF clip_norm
    THEN <<[op |-> "tf.clip_by_norm", t |-> gv[1], bounds |-> <<clip_grad>>],
           gv[2]>>
    ELSE <<[op |-> "tf.clip_by_value", t |-> gv[1],
            bounds |-> <<-clip_grad, clip_grad>>], gv[2]>>

RECURSIVE clip_gradients(_, _, _)
clip_gradients(grads_and_vars, clip_grad, clip_norm) ==
    IF grads_and_vars = <<>> THEN <<>>
    ELSE IF grads_and_vars[1][1] = NoneObj
    THEN clip_gradients(Tail(grads_and_vars), clip_grad, clip_norm)
    ELSE <<ClipOne(grads_and_vars[1], clip_grad, clip_norm)>>
           \o clip_gradients(Tail(grads_and_vars), clip_grad, clip_norm)

\* The trainable variables the subclass's _build creates on its first call,
\* by name: "h/W", "h/bias", "o/Bias".
BuildVariables == << <<"h", "/", "W">>,
                     <<"h", "/", "b", "i", "a", "s">>,
                     <<"o", "/", "B", "i", "a", "s">> >>

\* lines 261-263: the variables whose l2_loss enters weight_sum
RECURSIVE WeightDecayVars(_)
WeightDecayVars(variables) ==
    IF variables = <<>> THEN <<>>
    ELSE IF ~StrContains(<<"b", "i", "a", "s">>, lower(variables[1]))
    THEN <<variables[1]>> \o WeightDecayVars(Tail(variables))
    ELSE WeightDecayVars(Tail(variables))

\* The configurations a subclass's __init__ gives the model.
ClipGradInputs == {NoneInt, SomeInt(5)}
WeightDecayInputs == {0, 1}

AttentionInit ==
    /\ model \in {[num_classes |-> 4, sos_index |-> 2, eos_index |-> 3,
                   clip_grad |-> cg, weight_decay |-> wd,
                   summaries_train |-> <<>>, summaries_dev |-> <<>>] :
                      cg \in ClipGradInputs, wd \in WeightDecayInputs}
    /\ graph = [losses |-> <<>>, trainable_variables |-> <<>>,
                global_steps |-> 0, loss_calls |-> 0]
    /\ call = [op |-> "None"]
    /\ ret = NoneObj
    /\ raised = None
    /\ last_wrap = <<>>
    \* no Dataset call is under way
    /\ args = DatasetCall("train", "phone39", <<1, 1>>, FALSE)
    /\ pickled = <<>>
    /\ pc = "not_called"
    /\ exc = None
    /\ self = NoAttributes
    /\ opened = 0
    /\ np_loads = <<>>
    /\ input_list = <<>>
    /\ att_label_list = <<>>
    /\ ctc_label_list = <<>>

\* ---- the calls the model makes ----
Decoders == {[cls |-> "AttentionDecoder", name |-> "decoder_a"],
             [cls |-> "AttentionDecoder", name |-> "decoder_b"]}
BeamWidthInputs == {NoneInt} \cup {SomeInt(n) : n \in -1..3}
LengthPenaltyInputs == {"0.6"}
LearningRateInputs == {"1e-3"}

WithUpper(s, U) ==
    [i \in 1..Len(s) |->
        IF i \in U /\ \E k \in 1..Len(LowerLetters) : LowerLetters[k] = s[i]
        THEN UpperLetters[CHOOSE k \in 1..Len(LowerLetters) :
                             LowerLetters[k] = s[i]]
        ELSE s[i]]

\* Which letters are put in upper case: every choice for a short name; none,
\* all, or one letter for a longer one.
UpperChoices(n) ==
    IF n <= MaxFullCase THEN SUBSET (1..n)
    ELSE {{}, 1..n} \cup {{i} : i \in 1..n}

CaseVariants(s) == {WithUpper(s, U) : U \in UpperChoices(Len(s))}

\* "", "ada", "adamw", "nadam", "sgd ", "s-g-d", "lbfgs", "ADAM2"
OtherNames == { <<>>,
                <<"a", "d", "a">>,
                <<"a", "d", "a", "m", "w">>,
                <<"n", "a", "d", "a", "m">>,
                <<"s", "g", "d", " ">>,
                <<"s", "-", "g", "-", "d">>,
                <<"l", "b", "f", "g", "s">>,
                <<"A", "D", "A", "M", "2">> }

OptimizerNameInputs ==
    UNION {CaseVariants(OPTIMIZER_CLS_NAMES[i][1]) :
              i \in 1..Len(OPTIMIZER_CLS_NAMES)}
    \cup OtherNames

\* "Adam", "momentum", "adamw"
TrainOptimizerInputs == { <<"A", "d", "a", "m">>,
                          <<"m", "o", "m", "e", "n", "t", "u", "m">>,
                          <<"a", "d", "a", "m", "w">> }

\* line 126: beam_width is None or beam_width <= 1
greedyBelowOne(beam_width) == beam_width = NoneInt \/ beam_width[1] < 1
greedy(beam_width) == beam_width = NoneInt \/ beam_width[1] <= 1

\* lines 114-138
beam_search_decoder_wrapper(decoder, beam_width, length_penalty_weight) ==
    /\ call' = [op |-> "_beam_search_decoder_wrapper", decoder |-> decoder,
                beam_width |-> beam_width]
    /\ last_wrap' = IF last_wrap = <<>> THEN <<beam_width>>
                    ELSE <<beam_width, last_wrap[1]>>
    /\ raised' = None
    /\ IF greedy(beam_width)
       THEN /\ model' = SetAttr(model, "use_beam_search", FALSE)
            /\ ret' = decoder
       ELSE /\ model' = SetAttr(model, "use_beam_search", TRUE)
            /\ ret' = [cls |-> "BeamSearchDecoder",
                       decoder |-> decoder,
                       beam_width |-> beam_width[1],
                       vocab_size |-> model.num_classes,
                       eos_index |-> model.eos_index,
                       length_penalty_weight |-> length_penalty_weight,
                       choose_successors_fn |-> "choose_top_k"]
    /\ UNCHANGED <<graph, dsVars>>

BeamSearchDecoderWrapper ==
    \E decoder \in Decoders, beam_width \in BeamWidthInputs,
       length_penalty_weight \in LengthPenaltyInputs :
        beam_search_decoder_wrapper(decoder, beam_width, length_penalty_weight)

\* lines 249-304.  _build is the subclass's: it returns this call's logits
\* and decoder outputs and creates the variables on its first call.
\* tf.add_to_collection('losses', ..) for each new term; the total is then
\* tf.add_n(tf.get_collection('losses')).
LossesAfter(losses, new_terms) == losses \o new_terms

ComputeLoss ==
    /\ graph.loss_calls < MaxLossCalls
    /\ LET k == graph.loss_calls + 1
           variables == IF graph.trainable_variables = <<>>
                        THEN BuildVariables
                        ELSE graph.trainable_variables
           weight_loss == [op |-> "weight_sum * weight_decay", call |-> k,
                           l2_loss_of |-> WeightDecayVars(variables),
                           weight_decay |-> model.weight_decay]
           sequence_loss == [op |-> "sequence_loss", call |-> k,
                             l2_loss_of |-> <<>>, weight_decay |-> 0]
           new_terms == IF model.weight_decay > 0
                        THEN <<weight_loss, sequence_loss>>
                        ELSE <<sequence_loss>>
           losses == LossesAfter(graph.losses, new_terms)
           total_loss == [op |-> "tf.add_n", inputs |-> losses]
           new_summaries ==
               IF model.weight_decay > 0
               THEN <<weight_loss, total_loss, sequence_loss>>
               ELSE <<sequence_loss>>
       IN /\ graph' = [graph EXCEPT !.losses = losses,
                                    !.trainable_variables = variables,
                                    !.loss_calls = k]
          /\ model' = [model EXCEPT
                         !.summaries_train = @ \o new_summaries,
                         !.summaries_dev = @ \o new_summaries]
          /\ call' = [op |-> "compute_loss", k |-> k]
          /\ ret' = [loss |-> total_loss,
                     logits |-> [op |-> "logits + epsilon", call |-> k],
                     decoder_outputs_train |-> [op |-> "train", call |-> k],
                     decoder_outputs_infer |-> [op |-> "infer", call |-> k]]
          /\ raised' = None
    /\ UNCHANGED <<last_wrap, dsVars>>

\* lines 314-327
SetOptimizer ==
    \E optimizer_name \in OptimizerNameInputs,
       learning_rate \in LearningRateInputs :
        /\ call' = [op |-> "set_optimizer", optimizer_name |-> optimizer_name,
                    learning_rate |-> learning_rate]
        /\ IF set_optimizer_raises(optimizer_name)
           THEN raised' = "ValueError" /\ ret' = NoneObj
           ELSE /\ raised' = None
                /\ ret' = set_optimizer(optimizer_name, learning_rate)
        /\ UNCHANGED <<model, graph, last_wrap, dsVars>>

\* optimizer.compute_gradients(loss): one (gradient, variable) pair per
\* trainable variable, the gradient None for the variables in `unused`.
compute_gradients(loss, variables, unused) ==
    [i \in 1..Len(variables) |->
        <<IF variables[i] \in unused THEN NoneObj
          ELSE [op |-> "gradient", of |-> loss, wrt |-> variables[i]],
          variables[i]>>]

\* line 347: if self.clip_grad is not None
train_clips(clip_grad) == clip_grad # NoneInt

\* lines 340-366.  loss is the result of a compute_loss call.
Train ==
    /\ graph.global_steps < MaxTrainCalls
    /\ graph.loss_calls > 0
    /\ \E optimizer_name \in TrainOptimizerInputs,
          learning_rate \in LearningRateInputs,
          clip_norm \in BOOLEAN,
          unused \in {{}} \cup {{graph.trainable_variables[i]} :
                                    i \in 1..Len(graph.trainable_variables)} :
        LET loss == [op |-> "tf.add_n", inputs |-> graph.losses]
            global_step == graph.global_steps + 1
            optimizer == set_optimizer(optimizer_name, learning_rate)
            clip_grad == IF model.clip_grad = NoneInt THEN 0
                         ELSE model.clip_grad[1]
            grads_and_vars ==
                compute_gradients(loss, graph.trainable_variables, unused)
        IN /\ call' = [op |-> "train", optimizer_name |-> optimizer_name,
                       learning_rate |-> learning_rate,
                       clip_norm |-> clip_norm, loss |-> loss,
                       grads_and_vars |-> grads_and_vars]
           /\ graph' = [graph EXCEPT !.global_steps = global_step]
           /\ IF set_optimizer_raises(optimizer_name)
              THEN /\ raised' = "ValueError"
                   /\ ret' = NoneObj
                   /\ model' = model
              ELSE /\ raised' = None
                   /\ model' = SetAttr(model, "optimizer", optimizer)
                   /\ ret' =
                        IF train_clips(model.clip_grad)
                        THEN [op |-> "apply_gradients",
                              optimizer |-> optimizer,
                              grads_and_vars |->
                                  clip_gradients(grads_and_vars, clip_grad,
                                                 clip_norm),
                              loss |-> NoneObj,
                              global_step |-> global_step]
                        ELSE [op |-> "minimize",
                              optimizer |-> optimizer,
                              grads_and_vars |-> <<>>,
                              loss |-> loss,
                              global_step |-> global_step]
           /\ UNCHANGED <<last_wrap, dsVars>>

\* Optimizer selection and training on a graph whose loss is built.
OptimizerNext ==
    \/ ComputeLoss
    \/ SetOptimizer
    \/ Train

\* Decoder wrapping and loss construction.
DecodingNext ==
    \/ BeamSearchDecoderWrapper
    \/ ComputeLoss

\* ------------------------------------------------------------------------
\* Specifications
\* ------------------------------------------------------------------------
SpecDataset == DatasetInit /\ [][DatasetNext]_vars

SpecOptimizer == AttentionInit /\ [][OptimizerNext]_vars

SpecDecoding == AttentionInit /\ [][DecodingNext]_vars

\* ------------------------------------------------------------------------
\* Properties of Dataset.__init__
\* ------------------------------------------------------------------------
Constructed == pc = "done"
PathsSet == "input_paths" \in DOMAIN self
NumKeys == Len(pickled)

\* The arguments the docstring allows, written out.
ArgsAllowed ==
    /\ args.data_type \in {"train", "dev", "test"}
    /\ args.label_type \in {"phone39", "phone48", "phone61", "character",
                            "character_capital_divide"}

\* C1: a call with a data_type or label_type outside the allowed values
\* raises TypeError, and no file was opened or loaded and no attribute of
\* the instance was set.
C1_InvalidArgsRaiseBeforeSideEffects ==
    ~ArgsAllowed =>
        /\ pc \in {"check_args", "raised"}
        /\ pc = "raised" => exc = "TypeError"
        /\ self = NoAttributes
        /\ opened = 0
        /\ np_loads = <<>>
        /\ input_list = <<>> /\ att_label_list = <<>> /\ ctc_label_list = <<>>

C1_Witness ==
    /\ pc = "raised" /\ exc = "TypeError"
    /\ args.data_type = "train" /\ args.label_type = "phone"
    /\ pickled # <<>>

\* C2: with sort_utt = True, the frame counts that frame_num_dict records
\* for the utterances of input_paths never decrease along input_paths.
C2_SortedByFrameNum ==
    (PathsSet /\ args.sort_utt) =>
        \A i, j \in 1..Len(self.input_paths) :
            i < j => FrameNum(pickled, UttOf(self.input_paths[i]))
                       <= FrameNum(pickled, UttOf(self.input_paths[j]))

C2_Witness ==
    /\ Constructed /\ args.sort_utt
    /\ Len(pickled) >= 2
    /\ pickled[1][2] > pickled[2][2]
    /\ StrLess(pickled[1][1], pickled[2][1])

\* The loads made for entry i of the three lists.
LoadCount(path) == Cardinality({k \in 1..Len(np_loads) : np_loads[k] = path})

\* C3: when the constructor returns, the three lists hold one entry per key
\* of frame_num_dict, entry i being the array stored in input_paths[i],
\* att_label_paths[i] and ctc_label_paths[i]; every file was loaded exactly
\* once and the pickle opened once; input_list is stacked only after the
\* last load, and is then the stacking of the loaded arrays.
C3_EagerLoad ==
    /\ "input_list" \in DOMAIN self =>
          /\ Len(np_loads) = 3 * NumKeys
          /\ Len(input_list) = NumKeys
          /\ \A i \in 1..NumKeys :
                /\ input_list[i].stored_in = self.input_paths[i]
                /\ input_list[i].frames =
                      [t \in 1..FrameNum(pickled, UttOf(self.input_paths[i]))
                          |-> UttOf(self.input_paths[i]) \o <<t>>]
    /\ pc = "stack_frames" => self.input_list = input_list
    /\ Constructed =>
          /\ opened = 1
          /\ Len(self.input_paths) = NumKeys
          /\ Len(self.att_label_list) = NumKeys
          /\ Len(self.ctc_label_list) = NumKeys
          /\ self.input_list =
                stack_frame(input_list, self.input_paths, self.frame_num_dict,
                            args.num_stack, args.num_skip)
          /\ \A i \in 1..NumKeys :
                /\ self.att_label_list[i].stored_in = self.att_label_paths[i]
                /\ self.ctc_label_list[i].stored_in = self.ctc_label_paths[i]
                /\ self.att_label_paths[i].dir[2] = "attention"
                /\ self.ctc_label_paths[i].dir[2] = "ctc"
                /\ LoadCount(self.input_paths[i]) = 1
                /\ LoadCount(self.att_label_paths[i]) = 1
                /\ LoadCount(self.ctc_label_paths[i]) = 1

C3_Witness ==
    /\ Constructed
    /\ Len(pickled) >= 2
    /\ args.num_stack = 2
    /\ Len(np_loads) = 3 * Len(pickled)

\* Python's order of the four utterance names, written out.
NameRank(name) ==
    CASE name = <<97>> -> 1
      [] name = <<97, 98>> -> 2
      [] name = <<98>> -> 3
      [] name = <<98, 97>> -> 4

\* The same dict content in every iteration order.
IterationOrders(items) ==
    {[i \in 1..Len(items) |-> items[f[i]]] :
        f \in {g \in [1..Len(items) -> 1..Len(items)] :
                  \A i, j \in 1..Len(items) : i # j => g[i] # g[j]}}

\* C8: with sort_utt = False, input_paths lists the keys of frame_num_dict in
\* strictly ascending order of name, whatever the frame counts, and the
\* constructor's sort gives the same order for every iteration order of the
\* same dict content.
C8_SortedByNameDeterministic ==
    (PathsSet /\ ~args.sort_utt) =>
        /\ Len(self.input_paths) = NumKeys
        /\ {UttOf(self.input_paths[i]) : i \in 1..NumKeys}
              = {pickled[i][1] : i \in 1..NumKeys}
        /\ \A i, j \in 1..NumKeys :
              i < j => NameRank(UttOf(self.input_paths[i]))
                         < NameRank(UttOf(self.input_paths[j]))
        /\ Constructed =>
              \A q \in IterationOrders(pickled) :
                  PathsOf(InputDir(args.data_type),
                          sorted(q, SortAxis(args.sort_utt)))
                     = self.input_paths

C8_Witness ==
    /\ Constructed /\ ~args.sort_utt
    /\ Len(pickled) >= 2
    /\ StrLess(pickled[2][1], pickled[1][1])
    /\ pickled[1][2] < pickled[2][2]

\* ------------------------------------------------------------------------
\* Properties of AttentionBase
\* ------------------------------------------------------------------------
\* The names set_optimizer is to accept: one of the six keys with any of its
\* letters in upper case.  Gives the key, or <<>> when there is none.
AcceptedKeys(name) ==
    {i \in 1..Len(OPTIMIZER_CLS_NAMES) :
        /\ Len(name) = Len(OPTIMIZER_CLS_NAMES[i][1])
        /\ \E U \in SUBSET (1..Len(name)) :
              name = WithUpper(OPTIMIZER_CLS_NAMES[i][1], U)}

C4_Result ==
    call.op = "set_optimizer" =>
        LET keys == AcceptedKeys(call.optimizer_name) IN
        IF keys # {}
        THEN /\ raised = None
             /\ \A i \in keys :
                   /\ ret.cls = OPTIMIZER_CLS_NAMES[i][2]
                   /\ ret.learning_rate = call.learning_rate
        ELSE /\ raised = "ValueError"
             /\ ret = NoneObj

\* C4: set_optimizer accepts exactly the six names of OPTIMIZER_CLS_NAMES in
\* any letter case and returns an optimizer of the class mapped to the
\* lower-cased name; for any other name it raises ValueError and returns no
\* optimizer; in both cases it leaves the model and the graph as they were.
C4_SetOptimizer ==
    /\ []C4_Result
    /\ [][call'.op = "set_optimizer" => (model' = model /\ graph' = graph)]_vars

C4_Witness ==
    /\ call.op = "set_optimizer"
    /\ call.optimizer_name = <<"M", "O", "M", "E", "N", "T", "U", "M">>
    /\ raised = None
    /\ ret.cls = "tf.train.MomentumOptimizer" /\ ret.momentum = "0.9"
    /\ "optimizer" \in DOMAIN model
    /\ graph.loss_calls > 0

\* C5: the wrapper is greedy when beam_width is None or <= 1: it returns the
\* decoder it was given and sets use_beam_search to False; for beam_width >= 2
\* it sets use_beam_search to True and returns a BeamSearchDecoder around that
\* decoder with that beam_width, vocab_size = num_classes and the model's
\* eos_index.  use_beam_search is unset before the first wrapper call and
\* afterwards is decided by the last wrapper call alone.
C5_BeamSearchWrapper ==
    /\ call.op = "_beam_search_decoder_wrapper" =>
          IF call.beam_width = NoneInt \/ call.beam_width[1] <= 1
          THEN /\ ret = call.decoder
               /\ model.use_beam_search = FALSE
          ELSE /\ model.use_beam_search = TRUE
               /\ ret.cls = "BeamSearchDecoder"
               /\ ret.decoder = call.decoder
               /\ ret.beam_width = call.beam_width[1]
               /\ ret.beam_width >= 2
               /\ ret.vocab_size = model.num_classes
               /\ ret.eos_index = model.eos_index
    /\ last_wrap = <<>> => "use_beam_search" \notin DOMAIN model
    /\ last_wrap # <<>> =>
          model.use_beam_search =
              (last_wrap[1] # NoneInt /\ last_wrap[1][1] >= 2)

C5_Witness ==
    /\ call.op = "_beam_search_decoder_wrapper"
    /\ Len(last_wrap) = 2
    /\ last_wrap[2] = SomeInt(3)
    /\ last_wrap[1] = SomeInt(1)
    /\ model.use_beam_search = FALSE
    /\ ret = call.decoder

\* The (gradient, variable) pairs train is to apply: those of
\* compute_gradients whose gradient is not None, each gradient clipped.
NotNoneGrad(gv) == gv[1] # NoneObj
ExpectedClipped(grads_and_vars, op, bounds) ==
    LET kept == SelectSeq(grads_and_vars, NotNoneGrad)
    IN [i \in 1..Len(kept) |->
           <<[op |-> op, t |-> kept[i][1], bounds |-> bounds], kept[i][2]>>]

\* C6 as stated: for every configuration, a train call that returns applies
\* gradients clipped by norm (clip_norm = True) or by value
\* (clip_norm = False), with self.clip_grad as the bound.
C6_ClipsInEveryConfiguration ==
    (call.op = "train" /\ raised = None) =>
        /\ ret.op = "apply_gradients"
        /\ model.clip_grad # NoneInt
        /\ ret.grads_and_vars =
              IF call.clip_norm
              THEN ExpectedClipped(call.grads_and_vars, "tf.clip_by_norm",
                                   <<model.clip_grad[1]>>)
              ELSE ExpectedClipped(call.grads_and_vars, "tf.clip_by_value",
                                   <<-model.clip_grad[1], model.clip_grad[1]>>)

\* C6, amended: when self.clip_grad is not None, a train call that returns
\* applies the not-None gradients clipped by norm (clip_norm = True) or by
\* value in [-clip_grad, clip_grad] (clip_norm = False); when self.clip_grad
\* is None the train_op is optimizer.minimize(loss) and nothing is clipped.
C6_ClipsUnlessClipGradNone ==
    (call.op = "train" /\ raised = None) =>
        /\ ret.optimizer = model.optimizer
        /\ ret.global_step = graph.global_steps
        /\ IF model.clip_grad # NoneInt
           THEN /\ ret.op = "apply_gradients"
                /\ ret.grads_and_vars =
                      IF call.clip_norm
                      THEN ExpectedClipped(call.grads_and_vars,
                                           "tf.clip_by_norm",
                                           <<model.clip_grad[1]>>)
                      ELSE ExpectedClipped(call.grads_and_vars,
                                           "tf.clip_by_value",
                                           <<-model.clip_grad[1],
                                             model.clip_grad[1]>>)
           ELSE /\ ret.op = "minimize"
                /\ ret.loss = call.loss
                /\ ret.grads_and_vars = <<>>

C6_Witness ==
    /\ call.op = "train" /\ raised = None
    /\ call.clip_norm
    /\ model.clip_grad = SomeInt(5)
    /\ ret.op = "apply_gradients"
    /\ Len(ret.grads_and_vars) = 2
    /\ Len(call.grads_and_vars) = 3

\* C7: the total loss compute_loss returns is the sum of that call's
\* sequence loss and, when weight_decay > 0, that call's L2 term, and of
\* nothing else.
C7_TotalLossOfThisCallOnly ==
    call.op = "compute_loss" =>
        /\ Len(ret.loss.inputs) = IF model.weight_decay > 0 THEN 2 ELSE 1
        /\ \A i \in 1..Len(ret.loss.inputs) : ret.loss.inputs[i].call = call.k
        /\ \E i \in 1..Len(ret.loss.inputs) :
              ret.loss.inputs[i].op = "sequence_loss"
====
